---- MODULE Spec2Model ----
(***************************************************************************)
(* Model of the Author / Magazine / Article data-access layer              *)
(* (lib/models/*.py, lib/db/connection.py) over an SQLite store.           *)
(*                                                                         *)
(* Storage is the three tables plus sqlite_sequence.  Every connection is  *)
(* opened by get_db_connection(), which never issues PRAGMA foreign_keys,  *)
(* so SQLite does not enforce the FOREIGN KEY clauses of the schema.       *)
(*                                                                         *)
(* Python values are records [type, len, tag]: a str of length len whose   *)
(* text is identified by tag, or an int whose value is tag.  The id None   *)
(* of an instance is written NoId (0; AUTOINCREMENT ids start at 1).       *)
(***************************************************************************)
EXTENDS Integers, Sequences, FiniteSets, TLC

\* ---------------------------------------------------------------- bounds
MaxAuthorId == 2
MaxMagazineId == 1
MaxArticleId == 2
NumObjs == 1
MaxEntries == 2
MaxQueryArticles == 3

\* ------------------------------------------------------- program constants
TitleMinLen == 5
TitleMaxLen == 255
MagNameMinLen == 2
MagNameMaxLen == 100
MagCategoryMinLen == 2
MagCategoryMaxLen == 50

\* ---------------------------------------------------------- Python values
Str(n, t) == [type |-> "str", len |-> n, tag |-> t]
IntV(n) == [type |-> "int", len |-> 0, tag |-> n]
NoId == 0
NoObj == [cls |-> "none"]

\* unclosed: the number of connections the last operation opened and did
\* not close before it returned
\* pc: where each client stands inside a call of Article.save() that other
\* clients' calls may interleave with ("idle" outside such a call)
VARIABLES authors, magazines, articles, seq, objs, last, unclosed, pc
vars == <<authors, magazines, articles, seq, objs, last, unclosed, pc>>

Slots == 1..NumObjs
\* A call whose result the caller does not keep is written with slot 0.
SlotsOrDrop == 0..NumObjs
\* The variable of a second client, which may hold another instance of a row
\* the first client holds
OtherSlot == NumObjs + 1
AllSlots == 1..OtherSlot

\* ------------------------------------------------------------ validation
\* Author.__init__ / Author.name setter: isinstance(name, str) and len(name) != 0
Author_name_valid(v) == v.type = "str" /\ v.len # 0

\* Magazine.__init__: non-empty str of 2..100 characters
Magazine_name_valid(v) ==
    v.type = "str" /\ v.len # 0 /\ MagNameMinLen <= v.len /\ v.len <= MagNameMaxLen

\* Magazine.__init__: non-empty str of 2..50 characters
Magazine_category_valid(v) ==
    v.type = "str" /\ v.len # 0 /\ MagCategoryMinLen <= v.len /\ v.len <= MagCategoryMaxLen

\* The title check with the bounds excluded
Article_title_valid_exclusive(v) == v.type = "str" /\ TitleMinLen < v.len /\ v.len < TitleMaxLen

\* Article.__init__ / title setter: str of 5..255 characters
Article_title_valid(v) == v.type = "str" /\ TitleMinLen <= v.len /\ v.len <= TitleMaxLen

\* Article.__init__ / content setter: isinstance(content, str)
Article_content_valid(v) == v.type = "str"

\* Article.__init__: isinstance(author_id, int), isinstance(magazine_id, int)
Article_fk_valid(v) == v.type = "int"

\* ------------------------------------------------------------- instances
AuthorObj(name, id) == [cls |-> "Author", id |-> id, name |-> name]
MagazineObj(name, category, id) ==
    [cls |-> "Magazine", id |-> id, name |-> name, category |-> category]
\* author_instance and magazine_instance are the slots the author and
\* magazine properties fill on their first read (None until then)
ArticleObj(title, content, author_id, magazine_id, id) ==
    [cls |-> "Article", id |-> id, title |-> title, content |-> content,
     author_id |-> author_id, magazine_id |-> magazine_id,
     author_instance |-> NoObj, magazine_instance |-> NoObj]

\* The record of the last public call: its name, the slot it acted on, its
\* arguments, what it returned ("True", "False", "None", "obj", or "raised"),
\* the exception that left it, and the instance it returned.
Call(op, k, args, ret, exc, val) ==
    [op |-> op, k |-> k, args |-> args, ret |-> ret, exc |-> exc, val |-> val]

Put(k, o) == IF k = 0 THEN objs ELSE [objs EXCEPT ![k] = o]

\* ------------------------------------------------------------------ Init
Init ==
    /\ authors = {}
    /\ magazines = {}
    /\ articles = {}
    /\ seq = [authors |-> 0, magazines |-> 0, articles |-> 0]
    /\ objs = [k \in AllSlots |-> NoObj]
    /\ last = Call("init", 0, <<>>, "None", "", NoObj)
    /\ unclosed = 0
    /\ pc = [k \in AllSlots |-> "idle"]

\* ---------------------------------------------------------------- inputs
NameA == Str(1, 1)
NameB == Str(1, 2)
EmptyStr == Str(0, 0)
NotAStr == IntV(123)
AuthorNameInputs == {EmptyStr, NameA, NameB, NotAStr}

\* =================================================================== Author
\* INSERT INTO authors (name) VALUES (?): name is UNIQUE
AuthorInsertConflict(name) == \E r \in authors : r.name = name

\* An authors table whose name column accepts a name twice on UPDATE
AuthorUpdateConflict_unenforced(name, id) == FALSE
\* UPDATE authors SET name = ? WHERE id = ?: the row exists and another row
\* already has the name
AuthorUpdateConflict(name, id) ==
    /\ \E r \in authors : r.id = id
    /\ \E r \in authors : r.id # id /\ r.name = name

AuthorsUpdated(name, id) ==
    {IF r.id = id THEN [r EXCEPT !.name = name] ELSE r : r \in authors}

\* The handler of Author.save as it would run were sqlite3 imported in
\* author.py: it adopts the id of the stored author of that name.
Author_save_IntegrityError_imported(self) ==
    LET found == {r \in authors : r.name = self.name}
    IN  [self |-> IF found # {} /\ Author_name_valid(self.name)
                  THEN [self EXCEPT !.id = (CHOOSE r \in found : TRUE).id]
                  ELSE self,
         ret |-> "False", exc |-> ""]

\* Author.save, `except sqlite3.IntegrityError:` -- author.py never imports
\* sqlite3, so matching the exception against the clause raises NameError,
\* which leaves save() after the finally block closed the connection.
Author_save_IntegrityError(self) ==
    [self |-> self, ret |-> "raised", exc |-> "NameError"]

\* Author.save() without the commit: the inserted row is lost when the
\* connection closes, the instance keeps the id
Author_save_out_uncommitted(self) ==
    IF self.id = NoId /\ ~AuthorInsertConflict(self.name)
    THEN [authors |-> authors, seq |-> seq.authors,
          self |-> [self EXCEPT !.id = seq.authors + 1], ret |-> "True", exc |-> ""]
    ELSE [authors |-> authors, seq |-> seq.authors, self |-> self,
          ret |-> "raised", exc |-> "NameError"]

\* Author.save(): the outcome for the instance self in the current storage
Author_save_out(self) ==
    IF self.id = NoId
    THEN IF AuthorInsertConflict(self.name)
         THEN LET h == Author_save_IntegrityError(self)
              IN  [authors |-> authors, seq |-> seq.authors,
                   self |-> h.self, ret |-> h.ret, exc |-> h.exc]
         ELSE LET id == seq.authors + 1
              IN  [authors |-> authors \cup {[id |-> id, name |-> self.name]},
                   seq |-> id, self |-> [self EXCEPT !.id = id],
                   ret |-> "True", exc |-> ""]
    ELSE IF AuthorUpdateConflict(self.name, self.id)
         THEN LET h == Author_save_IntegrityError(self)
              IN  [authors |-> authors, seq |-> seq.authors,
                   self |-> h.self, ret |-> h.ret, exc |-> h.exc]
         ELSE [authors |-> AuthorsUpdated(self.name, self.id), seq |-> seq.authors,
               self |-> self, ret |-> "True", exc |-> ""]

\* Author.get_by_id(author_id): the instance built from the row, or NoObj
\* (None) when no row matches or the constructor rejects the stored name
\* (the ValueError is caught by `except Exception`).
Author_get_by_id_in(table, author_id) ==
    LET rows == {r \in table : r.id = author_id}
    IN  IF rows = {} THEN NoObj
        ELSE LET row == CHOOSE r \in rows : TRUE
             IN  IF Author_name_valid(row.name) THEN AuthorObj(row.name, row.id)
                 ELSE NoObj
Author_get_by_id_out(author_id) == Author_get_by_id_in(authors, author_id)

\* Author(name): the constructor called by a client
Author_init(k, name) ==
    /\ IF Author_name_valid(name)
       THEN /\ objs' = Put(k, AuthorObj(name, NoId))
            /\ last' = Call("Author", k, <<name>>, "obj", "", AuthorObj(name, NoId))
       ELSE /\ objs' = objs
            /\ last' = Call("Author", k, <<name>>, "raised", "ValueError", NoObj)
    /\ UNCHANGED <<authors, magazines, articles, seq>>
    /\ pc' = pc
    /\ unclosed' = 0

\* author.save()
Author_save(k) ==
    /\ objs[k].cls = "Author"
    /\ LET out == Author_save_out(objs[k])
       IN  /\ out.seq <= MaxAuthorId
           /\ authors' = out.authors
           /\ seq' = [seq EXCEPT !.authors = out.seq]
           /\ objs' = [objs EXCEPT ![k] = out.self]
           /\ last' = Call("Author.save", k, <<objs[k]>>, out.ret, out.exc, out.self)
    /\ UNCHANGED <<magazines, articles>>
    /\ pc' = pc
    /\ unclosed' = 0

\* Author.create(name)
Author_create(k, name) ==
    /\ IF ~Author_name_valid(name)
       THEN /\ last' = Call("Author.create", k, <<name>>, "None", "", NoObj)
            /\ UNCHANGED <<authors, seq, objs>>
       ELSE LET out == Author_save_out(AuthorObj(name, NoId))
            IN  /\ out.seq <= MaxAuthorId
                /\ authors' = out.authors
                /\ seq' = [seq EXCEPT !.authors = out.seq]
                /\ IF out.ret = "True"
                   THEN /\ objs' = Put(k, out.self)
                        /\ last' = Call("Author.create", k, <<name>>, "obj", "", out.self)
                   ELSE /\ objs' = objs
                        /\ last' = Call("Author.create", k, <<name>>,
                                        IF out.exc = "" THEN "None" ELSE "raised",
                                        out.exc, NoObj)
    /\ UNCHANGED <<magazines, articles>>
    /\ pc' = pc
    /\ unclosed' = 0

\* Author.get_by_id(author_id)
Author_get_by_id(k, author_id) ==
    /\ LET got == Author_get_by_id_out(author_id)
       IN  /\ objs' = IF got = NoObj THEN objs ELSE Put(k, got)
           /\ last' = Call("Author.get_by_id", k, <<author_id>>,
                           IF got = NoObj THEN "None" ELSE "obj", "", got)
    /\ UNCHANGED <<authors, magazines, articles, seq>>
    /\ pc' = pc
    /\ unclosed' = 0

\* author.name = value
Author_name_set(k, value) ==
    /\ objs[k].cls = "Author"
    /\ IF ~Author_name_valid(value)
       THEN /\ last' = Call("Author.name=", k, <<objs[k], value>>, "raised", "ValueError", objs[k])
            /\ UNCHANGED <<authors, objs>>
       ELSE LET self == [objs[k] EXCEPT !.name = value]
            IN  /\ objs' = [objs EXCEPT ![k] = self]
                /\ authors' = IF self.id # NoId /\ ~AuthorUpdateConflict(value, self.id)
                              THEN AuthorsUpdated(value, self.id)
                              ELSE authors
                /\ last' = Call("Author.name=", k, <<objs[k], value>>, "None", "", self)
    /\ UNCHANGED <<magazines, articles, seq>>
    /\ pc' = pc
    /\ unclosed' = 0

\* A DELETE that removes nothing
AuthorsDeleted_kept(id) == authors
\* DELETE FROM authors WHERE id = ?.  The connection has foreign_keys off,
\* so ON DELETE CASCADE does not run and the articles table is untouched.
AuthorsDeleted(id) == {r \in authors : r.id # id}

\* author.delete()
Author_delete(k) ==
    /\ objs[k].cls = "Author"
    /\ IF objs[k].id = NoId
       THEN /\ last' = Call("Author.delete", k, <<objs[k]>>, "False", "", objs[k])
            /\ UNCHANGED <<authors, objs>>
       ELSE LET self == [objs[k] EXCEPT !.id = NoId]
            IN  /\ authors' = AuthorsDeleted(objs[k].id)
                /\ objs' = [objs EXCEPT ![k] = self]
                /\ last' = Call("Author.delete", k, <<objs[k]>>, "True", "", self)
    /\ UNCHANGED <<magazines, articles, seq>>
    /\ pc' = pc
    /\ unclosed' = 0

AuthorNext ==
    \/ \E k \in SlotsOrDrop, name \in AuthorNameInputs : Author_init(k, name)
    \/ \E k \in Slots : Author_save(k)
    \/ \E k \in SlotsOrDrop, name \in AuthorNameInputs : Author_create(k, name)
    \/ \E k \in SlotsOrDrop, id \in 1..MaxAuthorId : Author_get_by_id(k, id)
    \/ \E k \in Slots, value \in AuthorNameInputs : Author_name_set(k, value)
    \/ \E k \in Slots : Author_delete(k)

\* ================================================================= Magazine
MagNameInputs ==
    {Str(MagNameMinLen - 1, 0), Str(MagNameMinLen, 0), Str(MagNameMaxLen, 0),
     Str(MagNameMaxLen + 1, 0), EmptyStr, NotAStr}
MagCategoryInputs ==
    {Str(MagCategoryMinLen - 1, 0), Str(MagCategoryMinLen, 0), Str(MagCategoryMaxLen, 0),
     Str(MagCategoryMaxLen + 1, 0), EmptyStr, NotAStr}
\* Constructor arguments: each name with the shortest valid category, each
\* category with the shortest valid name, and the two longest together.
MagazineInputs ==
    {<<n, Str(MagCategoryMinLen, 0)>> : n \in MagNameInputs}
    \cup {<<Str(MagNameMinLen, 0), c>> : c \in MagCategoryInputs}
    \cup {<<Str(MagNameMaxLen, 0), Str(MagCategoryMaxLen, 0)>>}

\* Magazine.__init__: all four checks
Magazine_init_valid(name, category) ==
    Magazine_name_valid(name) /\ Magazine_category_valid(category)

\* Magazine.name setter: str of 2..100 characters
Magazine_name_setter_valid(v) ==
    v.type = "str" /\ MagNameMinLen <= v.len /\ v.len <= MagNameMaxLen

\* The category setter checking against the limits of the name
Magazine_category_setter_valid_as_name(v) ==
    v.type = "str" /\ MagNameMinLen <= v.len /\ v.len <= MagNameMaxLen

\* Magazine.category setter: str of 2..50 characters
Magazine_category_setter_valid(v) ==
    v.type = "str" /\ MagCategoryMinLen <= v.len /\ v.len <= MagCategoryMaxLen

\* UPDATE magazines SET name = ?, category = ? WHERE id = ?
MagazinesUpdated(name, category, id) ==
    {IF r.id = id THEN [r EXCEPT !.name = name, !.category = category] ELSE r
        : r \in magazines}

\* Magazine.save(): magazines has no UNIQUE constraint, so neither statement fails
Magazine_save_out(self) ==
    IF self.id = NoId
    THEN LET id == seq.magazines + 1
         IN  [magazines |-> magazines \cup
                    {[id |-> id, name |-> self.name, category |-> self.category]},
              seq |-> id, self |-> [self EXCEPT !.id = id], ret |-> "True", exc |-> ""]
    ELSE [magazines |-> MagazinesUpdated(self.name, self.category, self.id),
          seq |-> seq.magazines, self |-> self, ret |-> "True", exc |-> ""]

\* Magazine.get_by_id(magazine_id): the instance built from the row, or
\* NoObj (None) when no row matches or the constructor rejects the row
Magazine_get_by_id_in(table, magazine_id) ==
    LET rows == {r \in table : r.id = magazine_id}
    IN  IF rows = {} THEN NoObj
        ELSE LET row == CHOOSE r \in rows : TRUE
             IN  IF Magazine_init_valid(row.name, row.category)
                 THEN MagazineObj(row.name, row.category, row.id)
                 ELSE NoObj
Magazine_get_by_id_out(magazine_id) == Magazine_get_by_id_in(magazines, magazine_id)

\* Magazine(name, category)
Magazine_init(k, name, category) ==
    /\ IF Magazine_init_valid(name, category)
       THEN /\ objs' = Put(k, MagazineObj(name, category, NoId))
            /\ last' = Call("Magazine", k, <<name, category>>, "obj", "",
                            MagazineObj(name, category, NoId))
       ELSE /\ objs' = objs
            /\ last' = Call("Magazine", k, <<name, category>>, "raised", "ValueError", NoObj)
    /\ UNCHANGED <<authors, magazines, articles, seq>>
    /\ pc' = pc
    /\ unclosed' = 0

\* magazine.save()
Magazine_save(k) ==
    /\ objs[k].cls = "Magazine"
    /\ LET out == Magazine_save_out(objs[k])
       IN  /\ out.seq <= MaxMagazineId
           /\ magazines' = out.magazines
           /\ seq' = [seq EXCEPT !.magazines = out.seq]
           /\ objs' = [objs EXCEPT ![k] = out.self]
           /\ last' = Call("Magazine.save", k, <<objs[k]>>, out.ret, out.exc, out.self)
    /\ UNCHANGED <<authors, articles>>
    /\ pc' = pc
    /\ unclosed' = 0

\* Magazine.create(name, category)
Magazine_create(k, name, category) ==
    /\ IF ~Magazine_init_valid(name, category)
       THEN /\ last' = Call("Magazine.create", k, <<name, category>>, "None", "", NoObj)
            /\ UNCHANGED <<magazines, seq, objs>>
       ELSE LET out == Magazine_save_out(MagazineObj(name, category, NoId))
            IN  /\ out.seq <= MaxMagazineId
                /\ magazines' = out.magazines
                /\ seq' = [seq EXCEPT !.magazines = out.seq]
                /\ objs' = Put(k, out.self)
                /\ last' = Call("Magazine.create", k, <<name, category>>, "obj", "", out.self)
    /\ UNCHANGED <<authors, articles>>
    /\ pc' = pc
    /\ unclosed' = 0

\* Magazine.get_by_id(magazine_id)
Magazine_get_by_id(k, magazine_id) ==
    /\ LET got == Magazine_get_by_id_out(magazine_id)
       IN  /\ objs' = IF got = NoObj THEN objs ELSE Put(k, got)
           /\ last' = Call("Magazine.get_by_id", k, <<magazine_id>>,
                           IF got = NoObj THEN "None" ELSE "obj", "", got)
    /\ UNCHANGED <<authors, magazines, articles, seq>>
    /\ pc' = pc
    /\ unclosed' = 0

\* Magazine._update_field_in_db('name', value)
Magazine_update_name_in_db(self, value) ==
    IF self.id # NoId
    THEN {IF r.id = self.id THEN [r EXCEPT !.name = value] ELSE r : r \in magazines}
    ELSE magazines

\* Magazine._update_field_in_db('category', value)
Magazine_update_category_in_db(self, value) ==
    IF self.id # NoId
    THEN {IF r.id = self.id THEN [r EXCEPT !.category = value] ELSE r : r \in magazines}
    ELSE magazines

\* magazine.name = value
Magazine_name_set(k, value) ==
    /\ objs[k].cls = "Magazine"
    /\ IF ~Magazine_name_setter_valid(value)
       THEN /\ last' = Call("Magazine.name=", k, <<objs[k], value>>, "raised",
                            "ValueError", objs[k])
            /\ UNCHANGED <<magazines, objs>>
       ELSE LET self == [objs[k] EXCEPT !.name = value]
            IN  /\ objs' = [objs EXCEPT ![k] = self]
                /\ magazines' = Magazine_update_name_in_db(self, value)
                /\ last' = Call("Magazine.name=", k, <<objs[k], value>>, "None", "", self)
    /\ UNCHANGED <<authors, articles, seq>>
    /\ pc' = pc
    /\ unclosed' = 0

\* magazine.category = value
Magazine_category_set(k, value) ==
    /\ objs[k].cls = "Magazine"
    /\ IF ~Magazine_category_setter_valid(value)
       THEN /\ last' = Call("Magazine.category=", k, <<objs[k], value>>, "raised",
                            "ValueError", objs[k])
            /\ UNCHANGED <<magazines, objs>>
       ELSE LET self == [objs[k] EXCEPT !.category = value]
            IN  /\ objs' = [objs EXCEPT ![k] = self]
                /\ magazines' = Magazine_update_category_in_db(self, value)
                /\ last' = Call("Magazine.category=", k, <<objs[k], value>>, "None", "", self)
    /\ UNCHANGED <<authors, articles, seq>>
    /\ pc' = pc
    /\ unclosed' = 0

\* DELETE FROM magazines WHERE id = ? (foreign_keys off: no cascade)
MagazinesDeleted(id) == {r \in magazines : r.id # id}

\* magazine.delete()
Magazine_delete(k) ==
    /\ objs[k].cls = "Magazine"
    /\ IF objs[k].id = NoId
       THEN /\ last' = Call("Magazine.delete", k, <<objs[k]>>, "False", "", objs[k])
            /\ UNCHANGED <<magazines, objs>>
       ELSE LET self == [objs[k] EXCEPT !.id = NoId]
            IN  /\ magazines' = MagazinesDeleted(objs[k].id)
                /\ objs' = [objs EXCEPT ![k] = self]
                /\ last' = Call("Magazine.delete", k, <<objs[k]>>, "True", "", self)
    /\ UNCHANGED <<authors, articles, seq>>
    /\ pc' = pc
    /\ unclosed' = 0

MagazineNext ==
    \/ \E k \in SlotsOrDrop, a \in MagazineInputs : Magazine_init(k, a[1], a[2])
    \/ \E k \in Slots : Magazine_save(k)
    \/ \E k \in SlotsOrDrop, a \in MagazineInputs : Magazine_create(k, a[1], a[2])
    \/ \E k \in SlotsOrDrop, id \in 1..MaxMagazineId : Magazine_get_by_id(k, id)
    \/ \E k \in Slots, value \in MagNameInputs : Magazine_name_set(k, value)
    \/ \E k \in Slots, value \in MagCategoryInputs : Magazine_category_set(k, value)
    \/ \E k \in Slots : Magazine_delete(k)

\* ================================================================== Article
TitleInputs ==
    {Str(TitleMinLen - 1, 0), Str(TitleMinLen, 0), Str(TitleMaxLen, 0),
     Str(TitleMaxLen + 1, 0), EmptyStr, NotAStr}
ContentInputs == {EmptyStr, Str(7, 0), NotAStr}
NotAnInt == Str(1, 9)
AuthorIdInputs == {IntV(i) : i \in 1..MaxAuthorId} \cup {NotAnInt}
MagazineIdInputs == {IntV(i) : i \in 1..MaxMagazineId} \cup {NotAnInt}
\* Constructor arguments <<title, content, author_id, magazine_id>>: every
\* title and every pair of ids with empty content, and the other contents
\* with the shortest valid title.
ArticleInputs ==
    {<<t, EmptyStr, a, m>> : t \in TitleInputs, a \in AuthorIdInputs, m \in MagazineIdInputs}
    \cup {<<Str(TitleMinLen, 0), c, IntV(1), IntV(1)>> : c \in ContentInputs}

\* Article.__init__: the four checks
Article_init_valid(title, content, author_id, magazine_id) ==
    /\ Article_title_valid(title)
    /\ Article_fk_valid(author_id)
    /\ Article_fk_valid(magazine_id)
    /\ Article_content_valid(content)

\* The foreign-key lookup left out
Article_check_foreign_key_exists_skipped(table, record_id) == TRUE

\* Article._check_foreign_key_exists(table_name, record_id)
Article_check_foreign_key_exists(table, record_id) == \E r \in table : r.id = record_id

\* UPDATE articles SET title, content, author_id, magazine_id WHERE id = ?
ArticlesUpdated(self) ==
    {IF r.id = self.id
     THEN [r EXCEPT !.title = self.title, !.content = self.content,
                    !.author_id = self.author_id, !.magazine_id = self.magazine_id]
     ELSE r : r \in articles}

\* Article.save(), the try block after the two lookups: INSERT and
\* lastrowid for an instance without id, UPDATE ... WHERE id = ? otherwise,
\* then commit.  foreign_keys is off, so neither statement fails.
Article_save_write_out(self) ==
    IF self.id = NoId
    THEN LET id == seq.articles + 1
         IN  [articles |-> articles \cup
                    {[id |-> id, title |-> self.title, content |-> self.content,
                      author_id |-> self.author_id, magazine_id |-> self.magazine_id]},
              seq |-> id, self |-> [self EXCEPT !.id = id], ret |-> "True", exc |-> ""]
    ELSE [articles |-> ArticlesUpdated(self), seq |-> seq.articles, self |-> self,
          ret |-> "True", exc |-> ""]

\* A save() that inserts whether or not the instance has an id
Article_save_out_reinserts(self) ==
    LET id == seq.articles + 1
    IN  [articles |-> articles \cup
                {[id |-> id, title |-> self.title, content |-> self.content,
                  author_id |-> self.author_id, magazine_id |-> self.magazine_id]},
         seq |-> id, self |-> [self EXCEPT !.id = id], ret |-> "True", exc |-> ""]
\* Article.save(): both foreign keys are looked up first; a missing one
\* returns False before any statement on articles runs.
Article_save_out(self) ==
    IF ~Article_check_foreign_key_exists(authors, self.author_id)
    THEN [articles |-> articles, seq |-> seq.articles, self |-> self,
          ret |-> "False", exc |-> ""]
    ELSE IF ~Article_check_foreign_key_exists(magazines, self.magazine_id)
    THEN [articles |-> articles, seq |-> seq.articles, self |-> self,
          ret |-> "False", exc |-> ""]
    ELSE Article_save_write_out(self)

\* Article.save(): the connection opened at the top of save() is closed by
\* the finally block of the try statement; the two returns after a failed
\* foreign-key lookup come before that try statement and leave it open.
Article_save_unclosed(self) ==
    IF /\ Article_check_foreign_key_exists(authors, self.author_id)
       /\ Article_check_foreign_key_exists(magazines, self.magazine_id)
    THEN 0 ELSE 1

\* A row of articles as the Article constructor sees it: the stored ids are
\* integers, the stored title and content are text.
Article_from_row(row) ==
    IF Article_title_valid(row.title) /\ Article_content_valid(row.content)
    THEN ArticleObj(row.title, row.content, row.author_id, row.magazine_id, row.id)
    ELSE NoObj

\* Article.get_by_id(article_id): None when no row matches or when the
\* constructor rejects the row (caught by `except Exception`)
Article_get_by_id_in(table, article_id) ==
    LET rows == {r \in table : r.id = article_id}
    IN  IF rows = {} THEN NoObj ELSE Article_from_row(CHOOSE r \in rows : TRUE)
Article_get_by_id_out(article_id) == Article_get_by_id_in(articles, article_id)

\* The rows of a set of article rows as a list in id order
RECURSIVE RowsById(_)
RowsById(rows) ==
    IF rows = {} THEN <<>>
    ELSE LET first == CHOOSE r \in rows : \A o \in rows : r.id <= o.id
         IN  <<first>> \o RowsById(rows \ {first})

\* author.articles(): the Article instances of the rows with this author_id
\* in id order; the empty list when the instance has no id, and also when
\* the constructor rejects one of the rows (caught by `except Exception`).
Author_articles_in(table, self) ==
    IF self.id = NoId THEN <<>>
    ELSE LET rows == RowsById({r \in table : r.author_id = self.id})
         IN  IF \E i \in 1..Len(rows) : Article_from_row(rows[i]) = NoObj
             THEN <<>>
             ELSE [i \in 1..Len(rows) |-> Article_from_row(rows[i])]
Author_articles_out(self) == Author_articles_in(articles, self)

\* Article(title, author_id, magazine_id, content)
Article_init(k, title, content, author_id, magazine_id) ==
    /\ IF Article_init_valid(title, content, author_id, magazine_id)
       THEN LET self == ArticleObj(title, content, author_id.tag, magazine_id.tag, NoId)
            IN  /\ objs' = Put(k, self)
                /\ last' = Call("Article", k, <<title, content, author_id, magazine_id>>,
                                "obj", "", self)
       ELSE /\ objs' = objs
            /\ last' = Call("Article", k, <<title, content, author_id, magazine_id>>,
                            "raised", "ValueError", NoObj)
    /\ UNCHANGED <<authors, magazines, articles, seq>>
    /\ pc' = pc
    /\ unclosed' = 0

\* article.save()
Article_save(k) ==
    /\ objs[k].cls = "Article"
    /\ LET out == Article_save_out(objs[k])
       IN  /\ out.seq <= MaxArticleId
           /\ articles' = out.articles
           /\ seq' = [seq EXCEPT !.articles = out.seq]
           /\ objs' = [objs EXCEPT ![k] = out.self]
           /\ last' = Call("Article.save", k, <<objs[k]>>, out.ret, out.exc, out.self)
    /\ UNCHANGED <<authors, magazines>>
    /\ pc' = pc
    /\ unclosed' = Article_save_unclosed(objs[k])

\* Article.create(title, content, author_id, magazine_id)
Article_create(k, title, content, author_id, magazine_id) ==
    /\ IF ~Article_init_valid(title, content, author_id, magazine_id)
       THEN /\ last' = Call("Article.create", k, <<title, content, author_id, magazine_id>>,
                            "None", "", NoObj)
            /\ UNCHANGED <<articles, seq, objs>>
       ELSE LET out == Article_save_out(
                            ArticleObj(title, content, author_id.tag, magazine_id.tag, NoId))
            IN  /\ out.seq <= MaxArticleId
                /\ articles' = out.articles
                /\ seq' = [seq EXCEPT !.articles = out.seq]
                /\ IF out.ret = "True"
                   THEN /\ objs' = Put(k, out.self)
                        /\ last' = Call("Article.create", k,
                                        <<title, content, author_id, magazine_id>>,
                                        "obj", "", out.self)
                   ELSE /\ objs' = objs
                        /\ last' = Call("Article.create", k,
                                        <<title, content, author_id, magazine_id>>,
                                        "None", "", NoObj)
    /\ UNCHANGED <<authors, magazines>>
    /\ pc' = pc
    /\ unclosed' = IF Article_init_valid(title, content, author_id, magazine_id)
                   THEN Article_save_unclosed(
                            ArticleObj(title, content, author_id.tag, magazine_id.tag, NoId))
                   ELSE 0

\* Article.get_by_id(article_id)
Article_get_by_id(k, article_id) ==
    /\ LET got == Article_get_by_id_out(article_id)
       IN  /\ objs' = IF got = NoObj THEN objs ELSE Put(k, got)
           /\ last' = Call("Article.get_by_id", k, <<article_id>>,
                           IF got = NoObj THEN "None" ELSE "obj", "", got)
    /\ UNCHANGED <<authors, magazines, articles, seq>>
    /\ pc' = pc
    /\ unclosed' = 0

\* The title update without the id check and without its WHERE clause
Article_update_title_in_db_all(self, value) ==
    {[r EXCEPT !.title = value] : r \in articles}
\* Article._update_field_in_db('title', value)
Article_update_title_in_db(self, value) ==
    IF self.id # NoId
    THEN {IF r.id = self.id THEN [r EXCEPT !.title = value] ELSE r : r \in articles}
    ELSE articles

\* Article._update_field_in_db('content', value)
Article_update_content_in_db(self, value) ==
    IF self.id # NoId
    THEN {IF r.id = self.id THEN [r EXCEPT !.content = value] ELSE r : r \in articles}
    ELSE articles

\* article.title = value
Article_title_set(k, value) ==
    /\ objs[k].cls = "Article"
    /\ IF ~Article_title_valid(value)
       THEN /\ last' = Call("Article.title=", k, <<objs[k], value>>, "raised",
                            "ValueError", objs[k])
            /\ UNCHANGED <<articles, objs>>
       ELSE LET self == [objs[k] EXCEPT !.title = value]
            IN  /\ objs' = [objs EXCEPT ![k] = self]
                /\ articles' = Article_update_title_in_db(self, value)
                /\ last' = Call("Article.title=", k, <<objs[k], value>>, "None", "", self)
    /\ UNCHANGED <<authors, magazines, seq>>
    /\ pc' = pc
    /\ unclosed' = 0

\* article.content = value
Article_content_set(k, value) ==
    /\ objs[k].cls = "Article"
    /\ IF ~Article_content_valid(value)
       THEN /\ last' = Call("Article.content=", k, <<objs[k], value>>, "raised",
                            "ValueError", objs[k])
            /\ UNCHANGED <<articles, objs>>
       ELSE LET self == [objs[k] EXCEPT !.content = value]
            IN  /\ objs' = [objs EXCEPT ![k] = self]
                /\ articles' = Article_update_content_in_db(self, value)
                /\ last' = Call("Article.content=", k, <<objs[k], value>>, "None", "", self)
    /\ UNCHANGED <<authors, magazines, seq>>
    /\ pc' = pc
    /\ unclosed' = 0

\* article.delete()
Article_delete(k) ==
    /\ objs[k].cls = "Article"
    /\ IF objs[k].id = NoId
       THEN /\ last' = Call("Article.delete", k, <<objs[k]>>, "False", "", objs[k])
            /\ UNCHANGED <<articles, objs>>
       ELSE LET self == [objs[k] EXCEPT !.id = NoId]
            IN  /\ articles' = {r \in articles : r.id # objs[k].id}
                /\ objs' = [objs EXCEPT ![k] = self]
                /\ last' = Call("Article.delete", k, <<objs[k]>>, "True", "", self)
    /\ UNCHANGED <<authors, magazines, seq>>
    /\ pc' = pc
    /\ unclosed' = 0

\* The author property looking the author up on every read
Article_author_out_uncached(self) == Author_get_by_id_out(self.author_id)

\* article.author: the instance in _author_instance, which is filled by
\* Author.get_by_id(self.author_id) when it is still None
Article_author_out(self) ==
    IF self.author_instance = NoObj
    THEN Author_get_by_id_out(self.author_id)
    ELSE self.author_instance

\* article.magazine: the same for _magazine_instance and Magazine.get_by_id
Article_magazine_out(self) ==
    IF self.magazine_instance = NoObj
    THEN Magazine_get_by_id_out(self.magazine_id)
    ELSE self.magazine_instance

\* article.author
Article_author(k) ==
    /\ objs[k].cls = "Article"
    /\ LET got == Article_author_out(objs[k])
       IN  /\ objs' = [objs EXCEPT ![k].author_instance = got]
           /\ last' = Call("Article.author", k, <<objs[k]>>,
                           IF got = NoObj THEN "None" ELSE "obj", "", got)
    /\ UNCHANGED <<authors, magazines, articles, seq>>
    /\ pc' = pc
    /\ unclosed' = 0

\* article.magazine
Article_magazine(k) ==
    /\ objs[k].cls = "Article"
    /\ LET got == Article_magazine_out(objs[k])
       IN  /\ objs' = [objs EXCEPT ![k].magazine_instance = got]
           /\ last' = Call("Article.magazine", k, <<objs[k]>>,
                           IF got = NoObj THEN "None" ELSE "obj", "", got)
    /\ UNCHANGED <<authors, magazines, articles, seq>>
    /\ pc' = pc
    /\ unclosed' = 0
\* article.save() as other clients see it.  Each lookup of
\* _check_foreign_key_exists runs on a connection of its own, and the
\* connection of save() starts its transaction only with the INSERT or
\* UPDATE, so calls of other clients can commit between the three steps.
\* First step: the lookup of the author.
Article_save_check_authors(k) ==
    /\ objs[k].cls = "Article"
    /\ pc[k] = "idle"
    /\ IF Article_check_foreign_key_exists(authors, objs[k].author_id)
       THEN /\ pc' = [pc EXCEPT ![k] = "check_magazines"]
            /\ UNCHANGED <<last, unclosed>>
       ELSE /\ last' = Call("Article.save", k, <<objs[k]>>, "False", "", objs[k])
            /\ unclosed' = 1
            /\ pc' = pc
    /\ UNCHANGED <<authors, magazines, articles, seq, objs>>

\* Second step: the lookup of the magazine.
Article_save_check_magazines(k) ==
    /\ pc[k] = "check_magazines"
    /\ IF Article_check_foreign_key_exists(magazines, objs[k].magazine_id)
       THEN /\ pc' = [pc EXCEPT ![k] = "write"]
            /\ UNCHANGED <<last, unclosed>>
       ELSE /\ last' = Call("Article.save", k, <<objs[k]>>, "False", "", objs[k])
            /\ unclosed' = 1
            /\ pc' = [pc EXCEPT ![k] = "idle"]
    /\ UNCHANGED <<authors, magazines, articles, seq, objs>>

\* Third step: the statement on articles and its commit.
Article_save_write(k) ==
    /\ pc[k] = "write"
    /\ LET out == Article_save_write_out(objs[k])
       IN  /\ out.seq <= MaxArticleId
           /\ articles' = out.articles
           /\ seq' = [seq EXCEPT !.articles = out.seq]
           /\ objs' = [objs EXCEPT ![k] = out.self]
           /\ last' = Call("Article.save", k, <<objs[k]>>, out.ret, out.exc, out.self)
    /\ pc' = [pc EXCEPT ![k] = "idle"]
    /\ unclosed' = 0
    /\ UNCHANGED <<authors, magazines>>
ArticleNext ==
    \/ \E k \in SlotsOrDrop, a \in ArticleInputs : Article_init(k, a[1], a[2], a[3], a[4])
    \/ \E k \in Slots : Article_save(k)
    \/ \E k \in SlotsOrDrop, a \in ArticleInputs : Article_create(k, a[1], a[2], a[3], a[4])
    \/ \E k \in SlotsOrDrop, id \in 1..MaxArticleId : Article_get_by_id(k, id)
    \/ \E k \in Slots, value \in TitleInputs : Article_title_set(k, value)
    \/ \E k \in Slots, value \in ContentInputs : Article_content_set(k, value)
    \/ \E k \in Slots : Article_delete(k)
    \/ \E k \in Slots : Article_author(k)
    \/ \E k \in Slots : Article_magazine(k)
    \/ \E k \in Slots : Article_save_check_authors(k)
    \/ \E k \in Slots : Article_save_check_magazines(k)
    \/ \E k \in Slots : Article_save_write(k)

\* ================================================= add_author_with_articles
\* An element of articles_data: a dict with the keys `keys`
Entry(keys, title, magazine_id) ==
    [keys |-> keys, title |-> title, magazine_id |-> magazine_id]
BothKeys == {"title", "magazine_id"}
\* A magazine id that storage never assigns
MissingMagazineId == MaxMagazineId + 1
TxnEntryInputs ==
    {Entry(BothKeys, Str(TitleMinLen, 1), m) : m \in 1..MissingMagazineId}
    \cup {Entry(BothKeys, Str(2, 2), 1), Entry({"title"}, Str(TitleMinLen, 1), 0),
          Entry({"magazine_id"}, EmptyStr, 1)}
RECURSIVE SeqsUpTo(_, _)
SeqsUpTo(S, n) ==
    IF n = 0 THEN {<<>>}
    ELSE LET shorter == SeqsUpTo(S, n - 1)
         IN  shorter \cup {Append(q, e) : q \in {x \in shorter : Len(x) = n - 1}, e \in S}
TxnArticlesInputs == SeqsUpTo(TxnEntryInputs, MaxEntries)
TxnNameInputs == {EmptyStr, NameA}

\* The loop over articles_data inside the transaction, from entry i on:
\* arts and n are the articles table and its sequence as the transaction
\* sees them.  It stops at the first entry that lacks a key or names a
\* magazine that is not stored (ValueError).
RECURSIVE Txn_insert_articles(_, _, _, _, _)
Txn_insert_articles(articles_data, i, author_id, arts, n) ==
    IF i > Len(articles_data) THEN [ok |-> TRUE, articles |-> arts, seq |-> n]
    ELSE LET article_info == articles_data[i]
         IN  IF ~(BothKeys \subseteq article_info.keys)
             THEN [ok |-> FALSE, articles |-> arts, seq |-> n]
             ELSE IF ~(\E r \in magazines : r.id = article_info.magazine_id)
             THEN [ok |-> FALSE, articles |-> arts, seq |-> n]
             ELSE Txn_insert_articles(articles_data, i + 1, author_id,
                    arts \cup {[id |-> n + 1, title |-> article_info.title,
                                content |-> EmptyStr, author_id |-> author_id,
                                magazine_id |-> article_info.magazine_id]},
                    n + 1)

\* What the transaction leaves when COMMIT is not reached: ROLLBACK in the
\* ValueError handler, or the close() of the finally block for the NameError
\* raised at `except sqlite3.IntegrityError`; both discard every statement.
Txn_rolled_back(txn_authors, txn_articles, txn_seq) ==
    [authors |-> authors, articles |-> articles, seq |-> seq]

\* add_author_with_articles(author_name, articles_data)
add_author_with_articles_out(author_name, articles_data) ==
    IF AuthorInsertConflict(author_name)
    THEN \* IntegrityError, then NameError at `except sqlite3.IntegrityError`
         [db |-> Txn_rolled_back(authors, articles, seq),
          ret |-> "raised", exc |-> "NameError", val |-> NoObj]
    ELSE LET author_id == seq.authors + 1
             txn_authors == authors \cup {[id |-> author_id, name |-> author_name]}
             loop == Txn_insert_articles(articles_data, 1, author_id, articles, seq.articles)
             txn_seq == [seq EXCEPT !.authors = author_id, !.articles = loop.seq]
         IN  IF ~loop.ok
             THEN [db |-> Txn_rolled_back(txn_authors, loop.articles, txn_seq),
                   ret |-> "False", exc |-> "", val |-> NoObj]
             ELSE \* COMMIT, then Author(name=author_name, id=author_id)
                  IF Author_name_valid(author_name)
                  THEN [db |-> [authors |-> txn_authors, articles |-> loop.articles,
                                seq |-> txn_seq],
                        ret |-> "obj", exc |-> "", val |-> AuthorObj(author_name, author_id)]
                  ELSE \* the constructor's ValueError reaches `except ValueError`,
                       \* whose ROLLBACK finds no transaction: OperationalError
                       [db |-> [authors |-> txn_authors, articles |-> loop.articles,
                                seq |-> txn_seq],
                        ret |-> "raised", exc |-> "OperationalError", val |-> NoObj]

add_author_with_articles(k, author_name, articles_data) ==
    /\ LET out == add_author_with_articles_out(author_name, articles_data)
       IN  /\ out.db.seq.authors <= MaxAuthorId
           /\ out.db.seq.articles <= MaxArticleId
           /\ authors' = out.db.authors
           /\ articles' = out.db.articles
           /\ seq' = out.db.seq
           /\ objs' = IF out.ret = "obj" THEN Put(k, out.val) ELSE objs
           /\ last' = Call("add_author_with_articles", k, <<author_name, articles_data>>,
                           out.ret, out.exc, out.val)
    /\ UNCHANGED magazines
    /\ pc' = pc
    /\ unclosed' = 0

TxnCall ==
    \E k \in SlotsOrDrop, author_name \in TxnNameInputs, articles_data \in TxnArticlesInputs :
        add_author_with_articles(k, author_name, articles_data)

\* ====================================================== relationship queries
\* The query methods read the tables and change nothing.  A returned list
\* whose order SQL leaves unspecified (no ORDER BY) is written as a set.

\* author.topic_areas(): None for an instance without id; otherwise the
\* DISTINCT categories of magazines JOIN articles for this author_id
\* (`... if rows else []`)
Author_topic_areas_out(self) ==
    IF self.id = NoId THEN [ret |-> "None", val |-> NoObj]
    ELSE [ret |-> "list",
          val |-> {m.category : m \in {r \in magazines :
                        \E a \in articles : /\ a.magazine_id = r.id
                                            /\ a.author_id = self.id}}]

\* magazine.article_titles(): None for an instance without id; otherwise
\* the titles of the articles with this magazine_id, in rowid order
Magazine_article_titles_out(self) ==
    IF self.id = NoId THEN [ret |-> "None", val |-> NoObj]
    ELSE LET rows == RowsById({a \in articles : a.magazine_id = self.id})
         IN  [ret |-> "list", val |-> [i \in 1..Len(rows) |-> rows[i].title]]

\* magazine.contributing_authors(): authors JOIN articles WHERE
\* magazine_id = ? GROUP BY author HAVING COUNT > 2, each row passed to
\* Author(...); a stored name the constructor rejects raises ValueError,
\* which `except Exception` turns into [].
Magazine_contributing_authors_out(self) ==
    IF self.id = NoId THEN {}
    ELSE LET rows == {au \in authors :
                        Cardinality({ar \in articles : /\ ar.author_id = au.id
                                                       /\ ar.magazine_id = self.id}) > 2}
         IN  IF \E au \in rows : ~Author_name_valid(au.name) THEN {}
             ELSE {AuthorObj(au.name, au.id) : au \in rows}

\* ORDER BY m.name: names of one length compare by their text, for which
\* the tag stands; GROUP BY m.id yields equal names in id order
RECURSIVE RowsByName(_)
RowsByName(rows) ==
    IF rows = {} THEN <<>>
    ELSE LET first == CHOOSE r \in rows : \A o \in rows :
                            \/ r.name.tag < o.name.tag
                            \/ r.name.tag = o.name.tag /\ r.id <= o.id
         IN  <<first>> \o RowsByName(rows \ {first})

\* The count query with JOIN in place of LEFT JOIN
Magazine_article_counts_per_magazine_inner ==
    LET rows == RowsByName({m \in magazines : \E a \in articles : a.magazine_id = m.id})
    IN  [i \in 1..Len(rows) |->
            [magazine_name |-> rows[i].name, magazine_category |-> rows[i].category,
             article_count |-> Cardinality({a \in articles : a.magazine_id = rows[i].id})]]

\* Magazine.article_counts_per_magazine(): magazines LEFT JOIN articles
\* GROUP BY m.id ORDER BY m.name; the rows carry name, category and count
Magazine_article_counts_per_magazine_out ==
    LET rows == RowsByName(magazines)
    IN  [i \in 1..Len(rows) |->
            [magazine_name |-> rows[i].name, magazine_category |-> rows[i].category,
             article_count |-> Cardinality({a \in articles : a.magazine_id = rows[i].id})]]

\* Author.author_with_most_articles(): authors JOIN articles GROUP BY a.id
\* ORDER BY article_count DESC LIMIT 1.  SQL does not fix which of several
\* rows with the highest count comes first, so every one of them is a
\* possible result; the row goes to cls(...), whose ValueError on a stored
\* name it rejects is caught and gives None.
Author_author_with_most_articles_out ==
    LET count(id) == Cardinality({ar \in articles : ar.author_id = id})
        top == {a \in authors : count(a.id) > 0 /\ \A o \in authors : count(o.id) <= count(a.id)}
    IN  IF top = {} THEN {NoObj}
        ELSE {IF Author_name_valid(a.name) THEN AuthorObj(a.name, a.id) ELSE NoObj : a \in top}

\* Magazine.top_publisher(): the same query over magazines
Magazine_top_publisher_out ==
    LET count(id) == Cardinality({a \in articles : a.magazine_id = id})
        top == {m \in magazines : count(m.id) > 0 /\ \A o \in magazines : count(o.id) <= count(m.id)}
    IN  IF top = {} THEN {NoObj}
        ELSE {IF Magazine_init_valid(m.name, m.category)
              THEN MagazineObj(m.name, m.category, m.id) ELSE NoObj : m \in top}

\* author.topic_areas()
Author_topic_areas(k) ==
    /\ objs[k].cls = "Author"
    /\ LET out == Author_topic_areas_out(objs[k])
       IN  last' = Call("Author.topic_areas", k, <<objs[k]>>, out.ret, "", out.val)
    /\ pc' = pc
    /\ unclosed' = 0
    /\ UNCHANGED <<authors, magazines, articles, seq, objs>>

\* magazine.article_titles()
Magazine_article_titles(k) ==
    /\ objs[k].cls = "Magazine"
    /\ LET out == Magazine_article_titles_out(objs[k])
       IN  last' = Call("Magazine.article_titles", k, <<objs[k]>>, out.ret, "", out.val)
    /\ pc' = pc
    /\ unclosed' = 0
    /\ UNCHANGED <<authors, magazines, articles, seq, objs>>

\* magazine.contributing_authors()
Magazine_contributing_authors(k) ==
    /\ objs[k].cls = "Magazine"
    /\ last' = Call("Magazine.contributing_authors", k, <<objs[k]>>, "list", "",
                    Magazine_contributing_authors_out(objs[k]))
    /\ pc' = pc
    /\ unclosed' = 0
    /\ UNCHANGED <<authors, magazines, articles, seq, objs>>

\* Magazine.article_counts_per_magazine()
Magazine_article_counts_per_magazine ==
    /\ last' = Call("Magazine.article_counts_per_magazine", 0, <<>>, "list", "",
                    Magazine_article_counts_per_magazine_out)
    /\ pc' = pc
    /\ unclosed' = 0
    /\ UNCHANGED <<authors, magazines, articles, seq, objs>>

\* Author.author_with_most_articles()
Author_author_with_most_articles ==
    /\ \E got \in Author_author_with_most_articles_out :
            last' = Call("Author.author_with_most_articles", 0, <<>>,
                         IF got = NoObj THEN "None" ELSE "obj", "", got)
    /\ pc' = pc
    /\ unclosed' = 0
    /\ UNCHANGED <<authors, magazines, articles, seq, objs>>

\* Magazine.top_publisher()
Magazine_top_publisher ==
    /\ \E got \in Magazine_top_publisher_out :
            last' = Call("Magazine.top_publisher", 0, <<>>,
                         IF got = NoObj THEN "None" ELSE "obj", "", got)
    /\ pc' = pc
    /\ unclosed' = 0
    /\ UNCHANGED <<authors, magazines, articles, seq, objs>>
\* Thresholds passed to magazines_with_articles_by_min_authors
MinAuthorsInputs == 0..MaxAuthorId

\* The threshold query over magazines LEFT JOIN articles: a magazine without
\* articles is a group of zero authors
Magazine_magazines_with_articles_by_min_authors_left(min_authors) ==
    {MagazineObj(m.name, m.category, m.id) : m \in {r \in magazines :
        Cardinality({a.author_id : a \in {x \in articles : x.magazine_id = r.id}})
            >= min_authors}}

\* Magazine.magazines_with_articles_by_min_authors(min_authors): magazines
\* JOIN articles GROUP BY m.id HAVING COUNT(DISTINCT a.author_id) >= ?.  The
\* inner join leaves a magazine without articles out of the groups; the
\* author_id values are counted whether or not authors still has the row.
Magazine_magazines_with_articles_by_min_authors_out(min_authors) ==
    LET rows == {m \in magazines :
                    /\ \E a \in articles : a.magazine_id = m.id
                    /\ Cardinality({a.author_id : a \in {x \in articles :
                                        x.magazine_id = m.id}}) >= min_authors}
    IN  IF \E m \in rows : ~Magazine_init_valid(m.name, m.category) THEN {}
        ELSE {MagazineObj(m.name, m.category, m.id) : m \in rows}

\* Magazine.magazines_with_articles_by_min_authors(min_authors)
Magazine_magazines_with_articles_by_min_authors(min_authors) ==
    /\ last' = Call("Magazine.magazines_with_articles_by_min_authors", 0,
                    <<min_authors>>, "list", "",
                    Magazine_magazines_with_articles_by_min_authors_out(min_authors))
    /\ pc' = pc
    /\ unclosed' = 0
    /\ UNCHANGED <<authors, magazines, articles, seq, objs>>

\* author.magazines(): DISTINCT magazines JOIN articles WHERE author_id = ?,
\* each row passed to Magazine(...); [] for an instance without id
Author_magazines_out(self) ==
    IF self.id = NoId THEN {}
    ELSE LET rows == {m \in magazines : \E a \in articles :
                            a.magazine_id = m.id /\ a.author_id = self.id}
         IN  IF \E m \in rows : ~Magazine_init_valid(m.name, m.category) THEN {}
             ELSE {MagazineObj(m.name, m.category, m.id) : m \in rows}

\* magazine.contributors(): DISTINCT authors JOIN articles WHERE
\* magazine_id = ?, each row passed to Author(...); a stored name the
\* constructor rejects raises ValueError, which `except Exception` turns
\* into [].
Magazine_contributors_out(self) ==
    IF self.id = NoId THEN {}
    ELSE LET rows == {au \in authors : \E a \in articles :
                            a.author_id = au.id /\ a.magazine_id = self.id}
         IN  IF \E au \in rows : ~Author_name_valid(au.name) THEN {}
             ELSE {AuthorObj(au.name, au.id) : au \in rows}

\* author.magazines(): the connection is opened before the id is looked at,
\* and the return for an instance without id does not close it
Author_magazines(k) ==
    /\ objs[k].cls = "Author"
    /\ last' = Call("Author.magazines", k, <<objs[k]>>, "list", "",
                    Author_magazines_out(objs[k]))
    /\ pc' = pc
    /\ unclosed' = IF objs[k].id = NoId THEN 1 ELSE 0
    /\ UNCHANGED <<authors, magazines, articles, seq, objs>>

\* magazine.contributors()
Magazine_contributors(k) ==
    /\ objs[k].cls = "Magazine"
    /\ last' = Call("Magazine.contributors", k, <<objs[k]>>, "list", "",
                    Magazine_contributors_out(objs[k]))
    /\ pc' = pc
    /\ unclosed' = 0
    /\ UNCHANGED <<authors, magazines, articles, seq, objs>>
QueryNext ==
    \/ \E k \in Slots : Author_topic_areas(k)
    \/ \E k \in Slots : Magazine_article_titles(k)
    \/ \E k \in Slots : Magazine_contributing_authors(k)
    \/ Magazine_article_counts_per_magazine
    \/ Author_author_with_most_articles
    \/ Magazine_top_publisher

RelationNext ==
    \/ \E min_authors \in MinAuthorsInputs :
            Magazine_magazines_with_articles_by_min_authors(min_authors)
    \/ \E k \in Slots : Author_magazines(k)
    \/ \E k \in Slots : Magazine_contributors(k)

Next == AuthorNext \/ MagazineNext \/ ArticleNext \/ TxnCall \/ QueryNext \/ RelationNext

Spec == Init /\ [][Next]_vars

\* ------------------------------------------------ the composite write alone
\* Callers that create magazines, keep no instance, and run the composite
\* write.
ValidMagazine == <<Str(MagNameMinLen, 0), Str(MagCategoryMinLen, 0)>>
TxnNext ==
    \/ Magazine_create(0, ValidMagazine[1], ValidMagazine[2])
    \/ \E author_name \in TxnNameInputs, articles_data \in TxnArticlesInputs :
            add_author_with_articles(0, author_name, articles_data)

SpecTxn == Init /\ [][TxnNext]_vars

\* ------------------------------------------------------- the Author class
SpecAuthor == Init /\ [][AuthorNext]_vars

\* ------------------------------------------- constructing and saving
\* One client variable (slot 1) holds the instance that is constructed and
\* then saved; authors and magazines are also deleted and stored articles
\* fetched again, so that an article can outlive the rows it references.
ValidArticleInputs ==
    {<<Str(TitleMinLen, 0), EmptyStr, IntV(a), IntV(m)>> :
        a \in 1..MaxAuthorId, m \in 1..MaxMagazineId}
SaveNext ==
    \/ \E name \in AuthorNameInputs : Author_init(1, name)
    \/ Magazine_init(1, ValidMagazine[1], ValidMagazine[2])
    \/ \E a \in ValidArticleInputs : Article_init(1, a[1], a[2], a[3], a[4])
    \/ Author_save(1)
    \/ Magazine_save(1)
    \/ Article_save(1)
    \/ Author_delete(1)
    \/ Magazine_delete(1)
    \/ \E id \in 1..MaxArticleId : Article_get_by_id(1, id)

SpecSave == Init /\ [][SaveNext]_vars

\* --------------------------------------------------------------- create()
\* Callers of Article.create and of the Article constructor that keep no
\* instance, over the rows made by Author.create and Magazine.create.
CreateNext ==
    \/ Author_create(0, NameA)
    \/ Magazine_create(0, ValidMagazine[1], ValidMagazine[2])
    \/ \E a \in ArticleInputs : Article_create(0, a[1], a[2], a[3], a[4])
    \/ \E a \in ArticleInputs : Article_init(0, a[1], a[2], a[3], a[4])

SpecCreate == Init /\ [][CreateNext]_vars

\* ----------------------------------------------------- property setters
\* One client variable holds a created or fetched instance and assigns to
\* its properties.
SetterNext ==
    \/ \E name \in {NameA, NameB} : Author_create(1, name)
    \/ Magazine_create(1, ValidMagazine[1], ValidMagazine[2])
    \/ Article_create(1, Str(TitleMinLen, 0), EmptyStr, IntV(1), IntV(1))
    \/ \E id \in 1..MaxAuthorId : Author_get_by_id(1, id)
    \/ \E value \in AuthorNameInputs : Author_name_set(1, value)
    \/ \E value \in MagNameInputs : Magazine_name_set(1, value)
    \/ \E value \in MagCategoryInputs : Magazine_category_set(1, value)
    \/ \E value \in TitleInputs : Article_title_set(1, value)
    \/ \E value \in ContentInputs : Article_content_set(1, value)

SpecSetters == Init /\ [][SetterNext]_vars

\* ------------------------------------------------------------- deleting
\* A client that creates rows, fetches an author or a magazine and deletes it.
DeleteNext ==
    \/ \E name \in {NameA, NameB} : Author_create(0, name)
    \/ Magazine_create(0, ValidMagazine[1], ValidMagazine[2])
    \/ \E a \in 1..MaxAuthorId, m \in 1..MaxMagazineId :
            Article_create(0, Str(TitleMinLen, 0), EmptyStr, IntV(a), IntV(m))
    \/ \E id \in 1..MaxAuthorId : Author_get_by_id(1, id)
    \/ \E id \in 1..MaxMagazineId : Magazine_get_by_id(1, id)
    \/ Author_delete(1)
    \/ Magazine_delete(1)

SpecDelete == Init /\ [][DeleteNext]_vars

\* ------------------------------------------------ every writer of authors
\* Clients of the Author class together with the composite write (without
\* articles), which inserts into authors as well.
NamesNext ==
    \/ AuthorNext
    \/ \E author_name \in TxnNameInputs : add_author_with_articles(0, author_name, <<>>)

SpecNames == Init /\ [][NamesNext]_vars

\* ------------------------------------------------------------- delete()
\* One client variable holds an instance of any of the three classes,
\* unsaved, created or fetched, and deletes it, possibly twice.
RemoveNext ==
    \/ Author_init(1, NameA)
    \/ Magazine_init(1, ValidMagazine[1], ValidMagazine[2])
    \/ Article_init(1, Str(TitleMinLen, 0), EmptyStr, IntV(1), IntV(1))
    \/ \E name \in {NameA, NameB} : Author_create(1, name)
    \/ Magazine_create(1, ValidMagazine[1], ValidMagazine[2])
    \/ \E a \in 1..MaxAuthorId :
            Article_create(1, Str(TitleMinLen, 0), EmptyStr, IntV(a), IntV(1))
    \/ \E id \in 1..MaxAuthorId : Author_get_by_id(1, id)
    \/ \E id \in 1..MaxArticleId : Article_get_by_id(1, id)
    \/ Author_delete(1)
    \/ Magazine_delete(1)
    \/ Article_delete(1)

SpecRemove == Init /\ [][RemoveNext]_vars

\* ------------------------------------------------------------ the queries
\* The queries are functions of the tables and of the instance they are
\* called on, so they are applied to tables and instances drawn from the
\* ones the writers produce: authors 1..MaxAuthorId, the first of them named
\* by Author.create or left with the empty name by add_author_with_articles,
\* the last of them possibly deleted again; magazines likewise, two of them
\* sharing a category and named in descending order; and up to
\* MaxQueryArticles articles of any author in any magazine, the rows of
\* deleted authors and magazines remaining.
QueryMagazineIds == 1..(MaxMagazineId + 1)
QueryAuthorsTables ==
    {{[id |-> i, name |-> IF i = 1 THEN first ELSE Str(1, i)] : i \in 1..n} :
        first \in {NameA, EmptyStr}, n \in {MaxAuthorId - 1, MaxAuthorId}}
QueryMagazinesTables ==
    {{[id |-> i, name |-> Str(MagNameMinLen, MaxMagazineId + 2 - i),
       category |-> Str(MagCategoryMinLen, (i + 1) \div 2)] : i \in 1..n} :
        n \in {MaxMagazineId, MaxMagazineId + 1}}

\* The lists of at most n <<author_id, magazine_id>> pairs in ascending
\* order: the article rows up to the numbering of their ids
RECURSIVE QueryArticlePairs(_)
QueryArticlePairs(n) ==
    IF n = 0 THEN {<<>>}
    ELSE LET shorter == QueryArticlePairs(n - 1)
             rank(p) == p[1] * (MaxMagazineId + 2) + p[2]
             longest == {q \in shorter : Len(q) = n - 1}
         IN  shorter \cup
             {Append(x[1], x[2]) :
                x \in {y \in longest \X ((1..MaxAuthorId) \X QueryMagazineIds) :
                            \/ y[1] = <<>>
                            \/ rank(y[1][Len(y[1])]) <= rank(y[2])}}
QueryArticlesTables ==
    {{[id |-> i, title |-> Str(TitleMinLen, i), content |-> EmptyStr,
       author_id |-> q[i][1], magazine_id |-> q[i][2]] : i \in 1..Len(q)} :
        q \in QueryArticlePairs(MaxQueryArticles)}

\* The instance the client's variables refer to: an unsaved Author or
\* Magazine, or one fetched by get_by_id
QueryInstances(au, mg) ==
    ({AuthorObj(NameB, NoId), MagazineObj(ValidMagazine[1], ValidMagazine[2], NoId)}
        \cup {Author_get_by_id_in(au, id) : id \in 1..MaxAuthorId}
        \cup {Magazine_get_by_id_in(mg, id) : id \in QueryMagazineIds}) \ {NoObj}

QueryInit ==
    /\ authors \in QueryAuthorsTables
    /\ magazines \in QueryMagazinesTables
    /\ articles \in QueryArticlesTables
    /\ seq = [authors |-> MaxAuthorId, magazines |-> MaxMagazineId + 1,
              articles |-> Cardinality(articles)]
    /\ \E self \in QueryInstances(authors, magazines) :
            objs = [k \in AllSlots |-> IF k \in Slots THEN self ELSE NoObj]
    /\ last = Call("init", 0, <<>>, "None", "", NoObj)
    /\ unclosed = 0
    /\ pc = [k \in AllSlots |-> "idle"]

SpecQuery == QueryInit /\ [][QueryNext]_vars

\* The threshold query and the two DISTINCT relationship queries over the
\* same tables and instances
SpecRelations == QueryInit /\ [][RelationNext]_vars

\* ------------------------------- the relationship queries after the writers
\* One client variable holds the created magazine or the author returned by
\* the composite write, and asks it for its authors or magazines.
TxnRelationNext ==
    \/ Magazine_create(1, ValidMagazine[1], ValidMagazine[2])
    \/ \E author_name \in TxnNameInputs, articles_data \in TxnArticlesInputs :
            add_author_with_articles(1, author_name, articles_data)
    \/ \E id \in 1..MaxMagazineId : Magazine_get_by_id(1, id)
    \/ Magazine_contributors(1)
    \/ Author_magazines(1)

SpecTxnRelations == Init /\ [][TxnRelationNext]_vars

\* --------------------------------------------------- detached instances
\* One client variable holds an instance returned by create(), so that an
\* instance without id in that variable is one whose delete() succeeded;
\* the client goes on assigning valid values to its properties.  Rows
\* created earlier stay stored when the variable is assigned again.
DetachedNext ==
    \/ Author_create(1, NameA)
    \/ Magazine_create(1, ValidMagazine[1], ValidMagazine[2])
    \/ Article_create(1, Str(TitleMinLen, 0), EmptyStr, IntV(1), IntV(1))
    \/ Author_delete(1)
    \/ Magazine_delete(1)
    \/ Article_delete(1)
    \/ Author_name_set(1, NameB)
    \/ Magazine_name_set(1, Str(MagNameMaxLen, 0))
    \/ Magazine_category_set(1, Str(MagCategoryMaxLen, 0))
    \/ Article_title_set(1, Str(TitleMaxLen, 0))
    \/ Article_content_set(1, Str(7, 0))

SpecDetached == Init /\ [][DetachedNext]_vars

\* The same client saving the instance again instead
ResaveNext ==
    \/ \E name \in {NameA, NameB} : Author_create(1, name)
    \/ Magazine_create(1, ValidMagazine[1], ValidMagazine[2])
    \/ Article_create(1, Str(TitleMinLen, 0), EmptyStr, IntV(1), IntV(1))
    \/ Author_delete(1)
    \/ Magazine_delete(1)
    \/ Article_delete(1)
    \/ Author_save(1)
    \/ Magazine_save(1)
    \/ Article_save(1)

SpecResave == Init /\ [][ResaveNext]_vars

\* ------------------------------------------------------- stale instances
\* The first client creates a row and keeps the instance; the second client
\* fetches rows by id and deletes them; the first client then saves or
\* deletes through the instance it still holds.
StaleNext ==
    \/ Author_create(1, NameA)
    \/ Magazine_create(1, ValidMagazine[1], ValidMagazine[2])
    \/ Article_create(1, Str(TitleMinLen, 0), EmptyStr, IntV(1), IntV(1))
    \/ \E id \in 1..MaxAuthorId : Author_get_by_id(OtherSlot, id)
    \/ \E id \in 1..MaxMagazineId : Magazine_get_by_id(OtherSlot, id)
    \/ \E id \in 1..MaxArticleId : Article_get_by_id(OtherSlot, id)
    \/ \E k \in {1, OtherSlot} : Author_delete(k)
    \/ \E k \in {1, OtherSlot} : Magazine_delete(k)
    \/ \E k \in {1, OtherSlot} : Article_delete(k)
    \/ Author_save(1)
    \/ Magazine_save(1)
    \/ Article_save(1)

SpecStale == Init /\ [][StaleNext]_vars

\* ------------------------------------------- the author and magazine slots
\* The first client holds an article and reads its author and magazine; the
\* second client creates, fetches, renames and deletes the rows the article
\* references.
CacheNext ==
    \/ Author_create(OtherSlot, NameA)
    \/ Magazine_create(OtherSlot, ValidMagazine[1], ValidMagazine[2])
    \/ Article_create(1, Str(TitleMinLen, 0), EmptyStr, IntV(1), IntV(1))
    \/ Article_author(1)
    \/ Article_magazine(1)
    \/ \E id \in 1..MaxAuthorId : Author_get_by_id(OtherSlot, id)
    \/ \E id \in 1..MaxMagazineId : Magazine_get_by_id(OtherSlot, id)
    \/ Author_name_set(OtherSlot, NameB)
    \/ Magazine_name_set(OtherSlot, Str(MagNameMaxLen, 0))
    \/ Author_delete(OtherSlot)
    \/ Magazine_delete(OtherSlot)

SpecCache == Init /\ [][CacheNext]_vars

\* ------------------------------------------------------ two callers
\* The first client constructs an article and saves it step by step; the
\* second client creates the author and the magazine, fetches them and
\* deletes them at any moment.
RaceNext ==
    \/ Author_create(OtherSlot, NameA)
    \/ Magazine_create(OtherSlot, ValidMagazine[1], ValidMagazine[2])
    \/ \E id \in 1..MaxAuthorId : Author_get_by_id(OtherSlot, id)
    \/ \E id \in 1..MaxMagazineId : Magazine_get_by_id(OtherSlot, id)
    \/ Author_delete(OtherSlot)
    \/ Magazine_delete(OtherSlot)
    \/ /\ pc[1] = "idle"
       /\ \E a \in ValidArticleInputs : Article_init(1, a[1], a[2], a[3], a[4])
    \/ Article_save_check_authors(1)
    \/ Article_save_check_magazines(1)
    \/ Article_save_write(1)

SpecRace == Init /\ [][RaceNext]_vars

\* ======================================================== the claims
TxnOp == "add_author_with_articles"
SaveOps == {"Author.save", "Magazine.save", "Article.save"}
CreateOps == {"Author.create", "Magazine.create", "Article.create"}
SetterOps == {"Author.name=", "Magazine.name=", "Magazine.category=",
              "Article.title=", "Article.content="}

\* C1: whenever add_author_with_articles does not return a persisted Author
\* (it returned the failure value or an exception left it), the authors
\* table and the articles table are exactly as they were before the call.
C1_FailedCompositeWriteLeavesTables ==
    [][(last'.op = TxnOp /\ last'.ret # "obj")
        => (authors' = authors /\ articles' = articles)]_vars

\* C2: when add_author_with_articles succeeds with N entries, it returns an
\* Author whose id is the id of the newly stored author row, and articles()
\* on that Author returns exactly N articles, one per entry in order, each
\* with author_id equal to the new id and the entry's title and magazine_id.
C2_CompositeWriteArticles ==
    [][(last'.op = TxnOp /\ last'.ret = "obj")
        => LET author == last'.val
               data == last'.args[2]
               got == Author_articles_in(articles', author)
           IN  /\ [id |-> author.id, name |-> last'.args[1]] \in authors' \ authors
               /\ Len(got) = Len(data)
               /\ \A i \in 1..Len(data) :
                    /\ got[i].author_id = author.id
                    /\ got[i].title = data[i].title
                    /\ got[i].magazine_id = data[i].magazine_id]_vars

\* C3: after a successful delete() of a persisted Author or Magazine, every
\* Article that referenced it immediately before the delete is gone:
\* Article.get_by_id returns None for each of those article ids.
C3_DeleteCascades ==
    [][/\ (last'.op = "Author.delete" /\ last'.ret = "True")
            => \A a \in articles : a.author_id = last'.args[1].id
                    => Article_get_by_id_in(articles', a.id) = NoObj
       /\ (last'.op = "Magazine.delete" /\ last'.ret = "True")
            => \A a \in articles : a.magazine_id = last'.args[1].id
                    => Article_get_by_id_in(articles', a.id) = NoObj]_vars

\* C4: Article.save() on an article whose author_id or magazine_id does not
\* reference an existing row returns False without raising, writes no
\* article row, and leaves the instance's id as it was (unset if unset).
C4_ArticleSaveMissingForeignKey ==
    [][(/\ last'.op = "Article.save"
        /\ \/ ~(\E r \in authors : r.id = last'.args[1].author_id)
           \/ ~(\E r \in magazines : r.id = last'.args[1].magazine_id))
        => /\ last'.ret = "False"
           /\ last'.exc = ""
           /\ articles' = articles
           /\ objs'[last'.k].id = last'.args[1].id]_vars

\* C4 witness: an unsaved article naming a missing author or magazine was
\* saved and save() returned False.
C4_Witness ==
    /\ last.op = "Article.save"
    /\ last.ret = "False"
    /\ last.args[1].id = NoId
    /\ \/ ~(\E r \in authors : r.id = last.args[1].author_id)
       \/ ~(\E r \in magazines : r.id = last.args[1].magazine_id)

\* C5: Author.save() on an unsaved Author whose name equals the name of a
\* stored author returns a failure value, propagates no exception, and
\* leaves the authors table unchanged.
C5_DuplicateAuthorSaveIsSoft ==
    [][(/\ last'.op = "Author.save"
        /\ last'.args[1].id = NoId
        /\ \E r \in authors : r.name = last'.args[1].name)
        => /\ last'.ret = "False"
           /\ last'.exc = ""
           /\ authors' = authors]_vars

C7_CreateNeverRaises ==
    [][(last'.op \in CreateOps)
        => /\ last'.exc = ""
           /\ last'.ret \in {"obj", "None"}
           /\ last'.ret = "obj" => last'.val.id # NoId
           /\ last'.ret = "None" =>
                (authors' = authors /\ magazines' = magazines /\ articles' = articles)]_vars

\* C8: for every non-empty name string not used by a stored author,
\* Author.create(name) returns an Author with a non-null id, and
\* Author.get_by_id of that id returns an author with that name and id.
C8_AuthorCreateThenGetById ==
    [][(/\ last'.op = "Author.create"
        /\ last'.args[1].type = "str"
        /\ last'.args[1].len >= 1
        /\ ~(\E r \in authors : r.name = last'.args[1]))
        => /\ last'.ret = "obj"
           /\ last'.val.id # NoId
           /\ last'.val.name = last'.args[1]
           /\ Author_get_by_id_in(authors', last'.val.id).cls = "Author"
           /\ Author_get_by_id_in(authors', last'.val.id).name = last'.args[1]
           /\ Author_get_by_id_in(authors', last'.val.id).id = last'.val.id]_vars

\* C8 witness: Author.create returned an instance for a name while another
\* author was already stored.
C8_Witness ==
    /\ last.op = "Author.create"
    /\ last.ret = "obj"
    /\ Cardinality(authors) >= 2
    /\ Author_get_by_id_out(last.val.id) = last.val

C10_Invalid(op, v) ==
    CASE op = "Article.title=" -> ~(v.type = "str" /\ 5 <= v.len /\ v.len <= 255)
      [] op = "Article.content=" -> v.type # "str"
      [] op = "Author.name=" -> v.type = "str" /\ v.len = 0
      [] op = "Magazine.name=" -> ~(v.type = "str" /\ 2 <= v.len /\ v.len <= 100)
      [] op = "Magazine.category=" -> ~(v.type = "str" /\ 2 <= v.len /\ v.len <= 50)

\* C10: assigning an invalid value through a property setter of a persisted
\* entity raises a validation error and leaves the instance's in-memory
\* fields and the stored rows unchanged.
C10_InvalidSetterChangesNothing ==
    [][(/\ last'.op \in SetterOps
        /\ last'.args[1].id # NoId
        /\ C10_Invalid(last'.op, last'.args[2]))
        => /\ last'.exc = "ValueError"
           /\ objs' = objs
           /\ objs'[last'.k] = last'.args[1]
           /\ authors' = authors
           /\ magazines' = magazines
           /\ articles' = articles]_vars

\* C10 witness: a category of 51 characters was assigned to a stored
\* magazine and rejected.
C10_Witness ==
    /\ last.op = "Magazine.category="
    /\ last.exc = "ValueError"
    /\ last.args[2].len = 51
    /\ \E r \in magazines : r.id = last.args[1].id /\ r.category = last.args[1].category

\* The instance get_by_id returns for the row of `self` after a step
StoredAfter(self) ==
    CASE self.cls = "Author" -> Author_get_by_id_in(authors', self.id)
      [] self.cls = "Magazine" -> Magazine_get_by_id_in(magazines', self.id)
      [] self.cls = "Article" -> Article_get_by_id_in(articles', self.id)

\* C11: whenever a property setter on an instance that has an id returns
\* without raising, get_by_id of that id immediately afterwards returns the
\* instance with the value just assigned.
C11_SetterWritesThrough ==
    [][(/\ last'.op \in SetterOps
        /\ last'.args[1].id # NoId
        /\ last'.exc = "")
        => /\ StoredAfter(last'.args[1]) = last'.val
           /\ last'.op = "Author.name=" => last'.val.name = last'.args[2]
           /\ last'.op = "Magazine.name=" => last'.val.name = last'.args[2]
           /\ last'.op = "Magazine.category=" => last'.val.category = last'.args[2]
           /\ last'.op = "Article.title=" => last'.val.title = last'.args[2]
           /\ last'.op = "Article.content=" => last'.val.content = last'.args[2]]_vars

\* C12: in every state reachable by save, create, the setters, delete and
\* add_author_with_articles, no two rows of authors have the same name.
C12_AuthorNamesUnique ==
    \A r1 \in authors, r2 \in authors : r1.name = r2.name => r1.id = r2.id

\* C12 witness: two authors are stored and the last call assigned to one of
\* them the name of the other.
C12_Witness ==
    /\ last.op = "Author.name="
    /\ last.exc = ""
    /\ last.args[1].id # NoId
    /\ \E r \in authors : r.id = last.args[1].id
    /\ \E r \in authors : r.id # last.args[1].id /\ r.name = last.args[2]

\* C13: renaming a persisted Author to a name already used by another
\* stored author, through the name setter or through save(), fails without
\* modifying state: the authors table is unchanged and the instance's
\* in-memory name is the name of its stored row.
C13_RenameToUsedNameChangesNothing ==
    [][(/\ last'.op \in {"Author.name=", "Author.save"}
        /\ last'.args[1].id # NoId
        /\ AuthorUpdateConflict(IF last'.op = "Author.name=" THEN last'.args[2]
                                ELSE last'.args[1].name,
                                last'.args[1].id))
        => /\ authors' = authors
           /\ \E r \in authors' : /\ r.id = last'.args[1].id
                                  /\ r.name = objs'[last'.k].name]_vars

DeleteOps == {"Author.delete", "Magazine.delete", "Article.delete"}

\* C14: delete() on an instance whose id is unset returns False and changes
\* no row; delete() on an instance whose id is set removes the row with that
\* id (get_by_id then returns None) and no other row of its table, returns
\* True, and sets the instance's id to None.
C14_Delete ==
    [][(last'.op \in DeleteOps)
        => IF last'.args[1].id = NoId
           THEN /\ last'.ret = "False"
                /\ authors' = authors /\ magazines' = magazines /\ articles' = articles
                /\ objs' = objs
           ELSE /\ last'.ret = "True"
                /\ StoredAfter(last'.args[1]) = NoObj
                /\ authors' = IF last'.op = "Author.delete"
                              THEN {r \in authors : r.id # last'.args[1].id} ELSE authors
                /\ magazines' = IF last'.op = "Magazine.delete"
                                THEN {r \in magazines : r.id # last'.args[1].id}
                                ELSE magazines
                /\ articles' = IF last'.op = "Article.delete"
                               THEN {r \in articles : r.id # last'.args[1].id}
                               ELSE articles
                /\ objs'[last'.k].id = NoId]_vars

\* C14 witness: an author whose row was stored has been deleted while
\* another author stays stored.
C14_Witness ==
    /\ last.op = "Author.delete"
    /\ last.ret = "True"
    /\ last.args[1].id # NoId
    /\ objs[last.k].id = NoId
    /\ authors # {}
    /\ ~(\E r \in authors : r.id = last.args[1].id)

\* What save() of `self` may do to its table: `before` and `after` are the
\* table around the call, `ret` the result and `id` the instance's id after it
C15_SaveEffect(before, after, self, ret, id) ==
    IF self.id = NoId
    THEN ret = "True" =>
            /\ before \subseteq after
            /\ Cardinality(after \ before) = 1
            /\ id # NoId
            /\ \A r \in after \ before : r.id = id
            /\ \A r \in before : r.id # id
    ELSE /\ {r \in after : r.id # self.id} = {r \in before : r.id # self.id}
         /\ Cardinality(after) = Cardinality(before)
         /\ id = self.id

\* C15: a successful save() on an instance with unset id adds exactly one
\* row to its table and sets the instance's id to that row's id; a save() on
\* an instance with a set id adds no row, removes no row and changes at most
\* the row with that id.  The other tables are left alone.
C15_SaveInsertsOrUpdates ==
    [][/\ last'.op = "Author.save"
            => /\ C15_SaveEffect(authors, authors', last'.args[1], last'.ret,
                                 objs'[last'.k].id)
               /\ magazines' = magazines /\ articles' = articles
       /\ last'.op = "Magazine.save"
            => /\ C15_SaveEffect(magazines, magazines', last'.args[1], last'.ret,
                                 objs'[last'.k].id)
               /\ authors' = authors /\ articles' = articles
       /\ last'.op = "Article.save"
            => /\ C15_SaveEffect(articles, articles', last'.args[1], last'.ret,
                                 objs'[last'.k].id)
               /\ authors' = authors /\ magazines' = magazines]_vars

\* C15 witness: an article that already had an id was saved again while two
\* article rows, each added by an earlier save(), are stored.
C15_Witness ==
    /\ last.op = "Article.save"
    /\ last.ret = "True"
    /\ last.args[1].id # NoId
    /\ Cardinality(articles) = 2
    /\ \E r \in articles : r.id = last.args[1].id

\* C17: every entity operation closes every connection it opened before it
\* returns, on every return path: between two public operations no
\* connection opened by the data layer is still open.
C17_NoConnectionLeftOpen == unclosed = 0

\* C16: with the connection obtained and the query run, Author.topic_areas()
\* and Magazine.article_titles() never return None; when no article matches
\* they return the empty list.
C16_NoneOnlyOnFailure ==
    [][/\ last'.op = "Author.topic_areas"
            => /\ last'.ret = "list"
               /\ (~\E a \in articles : a.author_id = last'.args[1].id) => last'.val = {}
       /\ last'.op = "Magazine.article_titles"
            => /\ last'.ret = "list"
               /\ (~\E a \in articles : a.magazine_id = last'.args[1].id)
                        => last'.val = <<>>]_vars

\* C18: Magazine.contributing_authors() returns exactly the authors who have
\* strictly more than 2 articles in that magazine, each once: an author with
\* exactly 2 articles there is excluded and articles in other magazines are
\* not counted.
C18_ContributingAuthors ==
    [][(last'.op = "Magazine.contributing_authors")
        => last'.val =
            {AuthorObj(au.name, au.id) : au \in {r \in authors :
                Cardinality({ar \in articles : /\ ar.author_id = r.id
                                               /\ ar.magazine_id = last'.args[1].id}) >= 3}}]_vars

\* C19: Magazine.article_counts_per_magazine() returns exactly one entry per
\* stored magazine, including magazines with no articles, and each entry's
\* article_count is the number of stored articles with that magazine's id.
C19_ArticleCountsPerMagazine ==
    [][(last'.op = "Magazine.article_counts_per_magazine")
        => /\ last'.ret = "list"
           /\ Len(last'.val) = Cardinality(magazines)
           /\ \E f \in [1..Len(last'.val) -> {m.id : m \in magazines}] :
                /\ \A i, j \in 1..Len(last'.val) : f[i] = f[j] => i = j
                /\ \A i \in 1..Len(last'.val) :
                    /\ \E m \in magazines : /\ m.id = f[i]
                                            /\ m.name = last'.val[i].magazine_name
                                            /\ m.category = last'.val[i].magazine_category
                    /\ last'.val[i].article_count =
                            Cardinality({a \in articles : a.magazine_id = f[i]})]_vars

\* C19 witness: the counts were returned for two stored magazines, one with
\* two articles or more and one with none.
C19_Witness ==
    /\ last.op = "Magazine.article_counts_per_magazine"
    /\ Len(last.val) = 2
    /\ \E i, j \in 1..2 : last.val[i].article_count >= 2 /\ last.val[j].article_count = 0

\* The number of stored articles of the author (magazine) with this id
C20_AuthorCount(id) == Cardinality({ar \in articles : ar.author_id = id})
C20_MagazineCount(id) == Cardinality({ar \in articles : ar.magazine_id = id})

\* C20: Author.author_with_most_articles() (Magazine.top_publisher())
\* returns None exactly when no stored article references a stored author
\* (magazine); otherwise it returns a stored author (magazine) whose article
\* count is at least that of every other one.
C20_MostArticles ==
    [][/\ last'.op = "Author.author_with_most_articles"
            => /\ last'.ret = "None" <=>
                    ~\E ar \in articles : \E a \in authors : a.id = ar.author_id
               /\ last'.ret # "None" =>
                    /\ [id |-> last'.val.id, name |-> last'.val.name] \in authors
                    /\ \A o \in authors : C20_AuthorCount(o.id) <= C20_AuthorCount(last'.val.id)
       /\ last'.op = "Magazine.top_publisher"
            => /\ last'.ret = "None" <=>
                    ~\E ar \in articles : \E m \in magazines : m.id = ar.magazine_id
               /\ last'.ret # "None" =>
                    /\ \E m \in magazines : m.id = last'.val.id
                    /\ \A o \in magazines :
                            C20_MagazineCount(o.id) <= C20_MagazineCount(last'.val.id)]_vars

\* The number of distinct authors among the stored articles of the magazine
\* with this id
C21_DistinctAuthors(id) ==
    Cardinality({a.author_id : a \in {x \in articles : x.magazine_id = id}})

\* C21: for every integer threshold min_authors,
\* Magazine.magazines_with_articles_by_min_authors(min_authors) returns
\* exactly the stored magazines whose number of distinct contributing
\* authors is greater than or equal to min_authors, each once.
C21_MinAuthors ==
    [][(last'.op = "Magazine.magazines_with_articles_by_min_authors")
        => last'.val =
            {MagazineObj(m.name, m.category, m.id) : m \in {r \in magazines :
                C21_DistinctAuthors(r.id) >= last'.args[1]}}]_vars

\* C21 amended: for every integer threshold min_authors >= 1 the result is
\* exactly the stored magazines whose number of distinct contributing
\* authors is at least min_authors, each once; for a threshold below 1 it
\* is exactly the stored magazines that have at least one article.
C21_MinAuthorsWithArticles ==
    [][(last'.op = "Magazine.magazines_with_articles_by_min_authors")
        => last'.val =
            {MagazineObj(m.name, m.category, m.id) : m \in {r \in magazines :
                IF last'.args[1] >= 1
                THEN C21_DistinctAuthors(r.id) >= last'.args[1]
                ELSE \E a \in articles : a.magazine_id = r.id}}]_vars

\* C21 witness: the query ran with threshold 2 and returned a magazine with
\* two authors while a stored magazine with a single author was left out.
C21_Witness ==
    /\ last.op = "Magazine.magazines_with_articles_by_min_authors"
    /\ last.args[1] = 2
    /\ \E m \in magazines : /\ C21_DistinctAuthors(m.id) = 2
                            /\ MagazineObj(m.name, m.category, m.id) \in last.val
    /\ \E m \in magazines : /\ C21_DistinctAuthors(m.id) = 1
                            /\ MagazineObj(m.name, m.category, m.id) \notin last.val

\* C22: Author.magazines() returns each stored magazine in which the author
\* has at least one article exactly once and no other magazine;
\* Magazine.contributors() returns each stored author with at least one
\* article in the magazine exactly once and no other author.
C22_DistinctRelations ==
    [][/\ last'.op = "Author.magazines"
            => last'.val =
                {MagazineObj(m.name, m.category, m.id) : m \in {r \in magazines :
                    \E a \in articles : /\ a.magazine_id = r.id
                                        /\ last'.args[1].id # NoId
                                        /\ a.author_id = last'.args[1].id}}
       /\ last'.op = "Magazine.contributors"
            => last'.val =
                {AuthorObj(au.name, au.id) : au \in {r \in authors :
                    \E a \in articles : /\ a.author_id = r.id
                                        /\ last'.args[1].id # NoId
                                        /\ a.magazine_id = last'.args[1].id}}]_vars

\* C23: in every state reachable by the public operations, including
\* add_author_with_articles, every stored row satisfies the validation rules
\* of its entity: author names are non-empty strings, magazine names have
\* 2..100 and categories 2..50 characters, article titles have 5..255
\* characters and article contents are strings.
C23_StoredRowsValid ==
    /\ \A r \in authors : r.name.type = "str" /\ r.name.len >= 1
    /\ \A r \in magazines :
        /\ r.name.type = "str" /\ 2 <= r.name.len /\ r.name.len <= 100
        /\ r.category.type = "str" /\ 2 <= r.category.len /\ r.category.len <= 50
    /\ \A r \in articles :
        /\ r.title.type = "str" /\ 5 <= r.title.len /\ r.title.len <= 255
        /\ r.content.type = "str"

\* C24: in every state reachable by create, save and delete of authors,
\* magazines and articles and by add_author_with_articles, every stored
\* article's author_id is the id of a stored author and its magazine_id is
\* the id of a stored magazine.
C24_ArticlesReferenceStoredRows ==
    \A a \in articles :
        /\ \E r \in authors : r.id = a.author_id
        /\ \E r \in magazines : r.id = a.magazine_id

\* The values a setter accepts
C25_Valid(op, v) ==
    CASE op = "Article.title=" -> v.type = "str" /\ 5 <= v.len /\ v.len <= 255
      [] op = "Article.content=" -> v.type = "str"
      [] op = "Author.name=" -> v.type = "str" /\ v.len >= 1
      [] op = "Magazine.name=" -> v.type = "str" /\ 2 <= v.len /\ v.len <= 100
      [] op = "Magazine.category=" -> v.type = "str" /\ 2 <= v.len /\ v.len <= 50

\* The field of the instance a setter assigns to
C25_Field(op, self) ==
    CASE op = "Article.title=" -> self.title
      [] op = "Article.content=" -> self.content
      [] op = "Author.name=" -> self.name
      [] op = "Magazine.name=" -> self.name
      [] op = "Magazine.category=" -> self.category

\* C25: after a successful delete(), assigning a valid value through a
\* property setter of the detached instance (its id is None) raises
\* nothing, changes the instance's in-memory field to the value, and
\* changes no row in storage.
C25_DetachedSetterWritesNothing ==
    [][(/\ last'.op \in SetterOps
        /\ last'.args[1].id = NoId
        /\ C25_Valid(last'.op, last'.args[2]))
        => /\ last'.exc = ""
           /\ C25_Field(last'.op, objs'[last'.k]) = last'.args[2]
           /\ objs'[last'.k].id = NoId
           /\ authors' = authors
           /\ magazines' = magazines
           /\ articles' = articles]_vars

\* C25 witness: a title was assigned to an article whose delete() succeeded
\* while another article row is stored, and no stored row has that title.
C25_Witness ==
    /\ last.op = "Article.title="
    /\ last.exc = ""
    /\ last.args[1].id = NoId
    /\ objs[last.k].title = last.args[2]
    /\ articles # {}
    /\ \A r \in articles : r.title # last.args[2]

\* C26: after a successful delete() a later save() on the same instance (its
\* id is None again) fails cleanly: it returns False without raising, adds
\* no row to storage, and leaves the instance's id None.
C26_DetachedSaveFails ==
    [][(/\ last'.op \in SaveOps
        /\ last'.args[1].id = NoId)
        => /\ last'.ret = "False"
           /\ last'.exc = ""
           /\ authors' = authors
           /\ magazines' = magazines
           /\ articles' = articles
           /\ objs'[last'.k].id = NoId]_vars

\* The row that holds the fields of the instance `self`
C27_Row(self) ==
    CASE self.cls = "Author" -> [id |-> self.id, name |-> self.name]
      [] self.cls = "Magazine" ->
            [id |-> self.id, name |-> self.name, category |-> self.category]
      [] self.cls = "Article" ->
            [id |-> self.id, title |-> self.title, content |-> self.content,
             author_id |-> self.author_id, magazine_id |-> self.magazine_id]

\* C27: whenever save() returns True for an instance, a row with the
\* instance's id exists in storage afterwards and its fields equal the
\* instance's fields, also when the row was deleted through another instance
\* of the same row before the save.
C27_SaveTrueStoresRow ==
    [][(last'.op \in SaveOps /\ last'.ret = "True")
        => /\ objs'[last'.k].cls = "Author" => C27_Row(objs'[last'.k]) \in authors'
           /\ objs'[last'.k].cls = "Magazine" => C27_Row(objs'[last'.k]) \in magazines'
           /\ objs'[last'.k].cls = "Article" => C27_Row(objs'[last'.k]) \in articles']_vars

\* C30: delete() returns True and clears the instance's id only if the call
\* removed a row with that id: the row was stored before the call and is
\* not stored after it.
C30_DeleteTrueRemovedRow ==
    [][(/\ last'.op \in DeleteOps
        /\ \/ last'.ret = "True"
           \/ objs'[last'.k].id # last'.args[1].id)
        => LET id == last'.args[1].id
           IN  /\ last'.op = "Author.delete" =>
                    /\ \E r \in authors : r.id = id
                    /\ ~\E r \in authors' : r.id = id
               /\ last'.op = "Magazine.delete" =>
                    /\ \E r \in magazines : r.id = id
                    /\ ~\E r \in magazines' : r.id = id
               /\ last'.op = "Article.delete" =>
                    /\ \E r \in articles : r.id = id
                    /\ ~\E r \in articles' : r.id = id]_vars

\* C28: once Article.author (Article.magazine) has returned an instance for
\* an Article instance, every later read of the property on that Article
\* instance returns that same cached instance, without a new lookup, even
\* after the referenced row has been renamed or deleted in storage.
C28_CachedRelation ==
    [][/\ (last'.op = "Article.author" /\ last'.args[1].author_instance # NoObj)
            => /\ last'.val = last'.args[1].author_instance
               /\ objs'[last'.k] = last'.args[1]
       /\ (last'.op = "Article.magazine" /\ last'.args[1].magazine_instance # NoObj)
            => /\ last'.val = last'.args[1].magazine_instance
               /\ objs'[last'.k] = last'.args[1]]_vars

\* C28 witness: the author property was read again after the author's row
\* was renamed or deleted, and returned the instance read the first time.
C28_Witness ==
    /\ last.op = "Article.author"
    /\ last.args[1].author_instance # NoObj
    /\ last.val = last.args[1].author_instance
    /\ Author_get_by_id_out(last.args[1].author_id) # last.val

\* C29: with two callers interleaving, Article.save() returning True implies
\* that the referenced author and magazine rows exist at the moment the
\* article row is committed: no interleaving of Article.save() with a
\* concurrent Author.delete() or Magazine.delete() leaves a stored article
\* referencing a missing row.
C29_SaveCommitsWithStoredRows ==
    [][\A k \in AllSlots :
        (pc[k] = "write" /\ pc'[k] = "idle" /\ last'.ret = "True")
        => /\ \E r \in authors' : r.id = objs'[k].author_id
           /\ \E r \in magazines' : r.id = objs'[k].magazine_id
           /\ \A a \in articles' : a.id = objs'[k].id =>
                /\ \E r \in authors' : r.id = a.author_id
                /\ \E r \in magazines' : r.id = a.magazine_id]_vars

====
